---- MODULE Spec2Model ----
(***************************************************************************)
(* Scan orchestration core of the CyberSec teaching tool:                  *)
(*   NetworkValidator  (app/services/scanner/network_validator.py)         *)
(*   NmapScanner       (app/services/scanner/nmap_scanner.py)              *)
(*   FakeNetworkGenerator (app/services/scanner/fake_network_generator.py) *)
(*   ScanOrchestrator  (app/services/scanner/orchestrator.py)              *)
(*                                                                         *)
(* The orchestrator runs on one asyncio event loop: a coroutine runs       *)
(* without interruption from one real suspension point to the next, so     *)
(* every action below is the code between two suspension points.           *)
(***************************************************************************)
EXTENDS Integers, Sequences, FiniteSets, TLC

VARIABLES
    maxNetworkSize,  \* settings.max_network_size
    enableReal,      \* settings.enable_real_scanning
    mode,            \* persisted preference mode_settings.mode
    now,             \* wall clock (seconds)
    nmapScanner,     \* ScanOrchestrator._nmap_scanner is not None
    scanHistory,     \* ScanOrchestrator._scan_history
    currentScan,     \* ScanOrchestrator._current_scan
    lastScanTime,    \* ScanOrchestrator._last_scan_time
    store,           \* durable scan rows (LocalDataStore, table of Scan)
    activeScans,     \* NmapScanner._active_scans of the orchestrator's scanner
    tasks,           \* the background units created by asyncio.create_task
    nextId,          \* number of scan ids handed out so far, plus one
    toolRuns,        \* targets the external scan tool has been invoked on
    cancelAcks,      \* scan ids for which cancel_scan has returned True
    reply,           \* what the most recent API call returned or raised
    rngStream,       \* what random.Random(seed) yields, for the seed of each target
    fakeScans,       \* what FakeNetworkGenerator.scan_network has returned so far
    scanLock         \* ScanOrchestrator._scan_lock: start_scan calls suspended on it

vars == <<maxNetworkSize, enableReal, mode, now, nmapScanner,
          scanHistory, currentScan, lastScanTime, store, activeScans, tasks,
          nextId, toolRuns, cancelAcks, reply,
                   rngStream, fakeScans, scanLock>>

(***************************************************************************)
(* Bounds of the model.                                                    *)
(***************************************************************************)
MaxScans == 2        \* scan ids handed out in one behaviour
MaxTicks == 2        \* clock advances in one behaviour

None == "None"

(***************************************************************************)
(* IP addresses.  An IPv4 address is the pair <<high 16 bits, low 16       *)
(* bits>>, compared lexicographically, because 2^32 does not fit       *)
(* TLC's integers.  An IPv6 address is <<high 112 bits, low 16 bits>>;     *)
(* the IPv6 inputs all have high bits 0 (::1 and its networks).            *)
(***************************************************************************)
IP(a, b, c, d) == <<a * 256 + b, c * 256 + d>>

AddrLE(x, y) == x[1] < y[1] \/ (x[1] = y[1] /\ x[2] <= y[2])

\* ipaddress: max_prefixlen of the address family
MaxPrefixLen(ver) == IF ver = 4 THEN 32 ELSE 128

\* A target string after parsing.  kind "bad" is a string that
\* ipaddress.ip_network / ip_address reject with ValueError.
Cidr(ver, a, p) == [kind |-> "cidr", ver |-> ver, addr |-> a, prefix |-> p]
Single(ver, a) == [kind |-> "ip", ver |-> ver, addr |-> a, prefix |-> MaxPrefixLen(ver)]
Malformed == [kind |-> "bad", ver |-> 4, addr |-> <<0, 0>>, prefix |-> 0]

\* number of host bits of a network
HostBits(n) == MaxPrefixLen(n.ver) - n.prefix

\* ip_network(..., strict=False).network_address: host bits cleared
network_address(n) ==
    IF HostBits(n) <= 16
    THEN <<n.addr[1], n.addr[2] - (n.addr[2] % (2 ^ HostBits(n)))>>
    ELSE IF n.ver = 4
         THEN <<n.addr[1] - (n.addr[1] % (2 ^ (HostBits(n) - 16))), 0>>
         ELSE <<0, 0>>

\* ip_network(...).broadcast_address: host bits set
broadcast_address(n) ==
    IF HostBits(n) <= 16
    THEN <<n.addr[1], network_address(n)[2] + (2 ^ HostBits(n)) - 1>>
    ELSE IF n.ver = 4
         THEN <<network_address(n)[1] + (2 ^ (HostBits(n) - 16)) - 1, 65535>>
         ELSE <<0, 65535>>

\* ip_network(...).num_addresses: 2 to the number of host bits.  Counts of
\* 2^30 and more are all represented by 2^30, the largest power
\* TLC's integers hold; the code only compares the count with
\* max_network_size, which is far below it.
num_addresses(n) == 2 ^ (IF HostBits(n) > 30 THEN 30 ELSE HostBits(n))

\* ip_network(...).hosts(): every address but the network address and, for
\* IPv4, the broadcast address; for the two longest prefixes every address
\* of the network.
hosts(n) ==
    LET lo == network_address(n)
        hi == broadcast_address(n)
        all == IF HostBits(n) <= 16
               THEN {<<lo[1], l>> : l \in lo[2]..hi[2]}
               ELSE {<<h, l>> : h \in lo[1]..hi[1], l \in 0..65535}
    IN  IF HostBits(n) <= 1 THEN all
        ELSE IF n.ver = 4 THEN all \ {lo, hi}
        ELSE all \ {lo}

(***************************************************************************)
(* NetworkValidator                                                        *)
(***************************************************************************)
PRIVATE_NETWORKS ==
    {Cidr(4, IP(10, 0, 0, 0), 8), Cidr(4, IP(172, 16, 0, 0), 12),
     Cidr(4, IP(192, 168, 0, 0), 16)}

ADDITIONAL_ALLOWED ==
    {Cidr(4, IP(127, 0, 0, 0), 8), Cidr(4, IP(169, 254, 0, 0), 16)}

MAX_NETWORK_SIZE == 256

\* NetworkValidator.__init__: max_network_size or MAX_NETWORK_SIZE
\* (0 is falsy, so a configured 0 selects the default)
EffectiveMax(configured) ==
    IF configured = 0 THEN MAX_NETWORK_SIZE ELSE configured

\* `ip_obj in network`: False for an address of the other family
is_private_ip(ver, a) ==
    \E net \in PRIVATE_NETWORKS \cup ADDITIONAL_ALLOWED :
        /\ ver = net.ver
        /\ AddrLE(network_address(net), a)
        /\ AddrLE(a, broadcast_address(net))

\* comparing addresses of different families raises TypeError -> False
_is_subnet_of(subnet, supernet) ==
    /\ subnet.ver = supernet.ver
    /\ AddrLE(network_address(supernet), network_address(subnet))
    /\ AddrLE(broadcast_address(subnet), broadcast_address(supernet))

is_private_network(n, max) ==
    \/ \E private_net \in PRIVATE_NETWORKS \cup ADDITIONAL_ALLOWED :
           _is_subnet_of(n, private_net)
    \/ /\ num_addresses(n) <= max
       /\ \A ip \in hosts(n) : is_private_ip(n.ver, ip)

\* _validate_network without its size check (lines 218-229)
_validate_network_NoSize(n, max) ==
    IF ~is_private_network(n, max) THEN "NotPrivate" ELSE "ok"

_validate_network(n, max) ==
    IF num_addresses(n) > max THEN "TooLarge"
    ELSE IF ~is_private_network(n, max) THEN "NotPrivate"
    ELSE "ok"

_validate_ip(t) ==
    IF ~is_private_ip(t.ver, t.addr) THEN "NotPrivate" ELSE "ok"

\* NetworkValidator.validate on a validator built with `configured`
validate(t, configured) ==
    IF t.kind = "bad" THEN "InvalidFormat"
    ELSE IF t.kind = "cidr" THEN _validate_network(t, EffectiveMax(configured))
    ELSE _validate_ip(t)

(***************************************************************************)
(* Records and inputs of the orchestrator.                                 *)
(***************************************************************************)
Ids == 1..MaxScans

\* _current_scan = None / no scan id
NoScan == 0

\* _last_scan_time = None
Never == -1

\* settings.scan_cooldown
SCAN_COOLDOWN == 60

\* seconds the clock advances in one step
TickStep == SCAN_COOLDOWN \div 2

\* ScanResult: the fields the lifecycle is about
ScanRec(s, e, p) == [status |-> s, error |-> e, progress |-> p]

Absent == ScanRec("absent", None, 0)

Terminal == {"completed", "failed", "cancelled"}

NoTarget == [kind |-> "none", ver |-> 4, addr |-> <<0, 0>>, prefix |-> 0]

HomeNet == Cidr(4, IP(192, 168, 1, 0), 24)
OfficeNet == Cidr(4, IP(10, 0, 0, 0), 24)
PublicHost == Single(4, IP(8, 8, 8, 8))
LargeNet == Cidr(4, IP(192, 168, 0, 0), 16)

\* the targets callers pass to start_scan and scan_network
ScanTargets == {HomeNet, OfficeNet, PublicHost, LargeNet, Malformed}

IdleTask == [pc |-> "none", target |-> NoTarget, engine |-> "none", outcome |-> "none"]

NoReply == [op |-> "none", result |-> "none", target |-> NoTarget]

\* the API requests whose start_scan calls run concurrently on the event loop
Callers == {"first", "second"}

\* self._scan_lock = asyncio.Lock(): not held, nobody waiting.  waiters[c] is
\* the target of the start_scan call of caller c that is suspended on the lock
Unlocked == [locked |-> FALSE, waiters |-> [c \in Callers |-> NoTarget]]

\* configured values of settings.max_network_size
MaxSizes == {0, 1, 2, 4, 255, 256, 257, 1024}

\* self._validator.validate(target) of the orchestrator and of the scanner,
\* both built with settings.max_network_size: `validate`, tabulated over the
\* scan targets
ValidatorResults ==
    [m \in MaxSizes |-> [t \in ScanTargets |-> validate(t, m)]]

validate_target(t) == ValidatorResults[maxNetworkSize][t]

\* a background unit that has been created and has not yet exited
InFlight == {i \in Ids : tasks[i].pc \in {"scheduled", "waiting"}}

(***************************************************************************)
(* ScanOrchestrator                                                        *)
(***************************************************************************)
\* _get_application_mode answering "live" unless "training" is stored
_get_application_mode_LiveUnlessTraining ==
    IF mode = "training" THEN "training" ELSE "live"

\* _get_application_mode: the stored mode, "training" when none is stored.
\* "unset": no mode_settings preference is stored.  "corrupt": the stored
\* value cannot be read as a JSON object, and the except branch answers.
_get_application_mode ==
    IF mode \in {"unset", "corrupt"} THEN "training" ELSE mode

\* _check_rate_limits with `elapsed <= cooldown` at line 318
_check_rate_limits_Inclusive ==
    IF /\ currentScan # NoScan
       /\ scanHistory[currentScan].status = "running"
    THEN "ScanInProgress"
    ELSE IF lastScanTime # Never /\ now - lastScanTime <= SCAN_COOLDOWN
    THEN "CooldownActive"
    ELSE "ok"

\* _check_rate_limits, line 319: the seconds the CooldownActive message
\* tells the caller to wait
cooldown_remaining == SCAN_COOLDOWN - (now - lastScanTime)

\* _check_rate_limits: what it raises, or "ok"
_check_rate_limits ==
    IF /\ currentScan # NoScan
       /\ scanHistory[currentScan].status = "running"
    THEN "ScanInProgress"
    ELSE IF lastScanTime # Never /\ now - lastScanTime < SCAN_COOLDOWN
    THEN "CooldownActive"
    ELSE "ok"

\* get_scan_status: the scanner's record, else the in-memory history, else
\* the stored row, else not found
get_scan_status(id) ==
    IF nmapScanner /\ activeScans[id].status # "absent" THEN activeScans[id]
    ELSE IF scanHistory[id].status # "absent" THEN scanHistory[id]
    ELSE IF store[id].status # "absent" THEN ScanRec(store[id].status, None, store[id].progress)
    ELSE Absent

\* start_scan testing enable_real_scanning without looking at the mode
StartScanOutcome_DisabledAnyMode(t, user_consent, installed) ==
    LET m == _get_application_mode
        v == validate_target(t)
        r == _check_rate_limits
    IN  IF ~user_consent THEN "ConsentRequired"
        ELSE IF v # "ok" THEN v
        ELSE IF r # "ok" THEN r
        ELSE IF ~enableReal THEN "ScanningDisabled"
        ELSE IF m = "live" /\ ~nmapScanner /\ ~installed THEN "ScannerUnavailable"
        ELSE "pending"

\* start_scan with the consent check after the other checks
StartScanOutcome_ConsentLast(t, user_consent, installed) ==
    LET m == _get_application_mode
        v == validate_target(t)
        r == _check_rate_limits
    IN  IF v # "ok" THEN v
        ELSE IF r # "ok" THEN r
        ELSE IF m = "live" /\ ~enableReal THEN "ScanningDisabled"
        ELSE IF ~user_consent THEN "ConsentRequired"
        ELSE IF m = "live" /\ ~nmapScanner /\ ~installed THEN "ScannerUnavailable"
        ELSE "pending"

\* start_scan, lines 141-171: what the call raises, or "pending" when it
\* goes on to create the scan.  `installed` says whether NmapScanner() can
\* be constructed should _get_scanner have to construct it.
StartScanOutcome(t, user_consent, installed) ==
    LET m == _get_application_mode
        v == validate_target(t)
        r == _check_rate_limits
    IN  IF ~user_consent THEN "ConsentRequired"
        ELSE IF v # "ok" THEN v
        ELSE IF r # "ok" THEN r
        ELSE IF m = "live" /\ ~enableReal THEN "ScanningDisabled"
        ELSE IF m = "live" /\ ~nmapScanner /\ ~installed THEN "ScannerUnavailable"
        ELSE "pending"

\* start_scan, lines 170-214: what the block under the scan lock writes
RecordCreated(t) ==
    /\ nmapScanner' = (nmapScanner \/ _get_application_mode = "live")
    /\ scanHistory' = [scanHistory EXCEPT ![nextId] = ScanRec("pending", None, 0)]
    /\ currentScan' = nextId
    /\ store' = [store EXCEPT ![nextId] = ScanRec("pending", None, 0)]
    /\ tasks' = [tasks EXCEPT ![nextId] =
                    [pc |-> "scheduled", target |-> t, engine |-> "none",
                     outcome |-> "none"]]
    /\ nextId' = nextId + 1
    /\ UNCHANGED <<maxNetworkSize, enableReal, mode, now, lastScanTime,
                   activeScans, toolRuns, cancelAcks, reply,
                   rngStream, fakeScans>>

\* start_scan, lines 168-216: the block under the scan lock
CreateScan(t) ==
    /\ RecordCreated(t)
    /\ UNCHANGED scanLock

\* start_scan saving the PENDING row before it runs its checks
StartScan_SaveBeforeChecks(t, user_consent, installed) ==
    /\ nextId <= MaxScans
    /\ IF StartScanOutcome(t, user_consent, installed) # "pending"
       THEN /\ store' = [store EXCEPT ![nextId] = ScanRec("pending", None, 0)]
            /\ UNCHANGED <<maxNetworkSize, enableReal, mode, now, nmapScanner,
                           scanHistory, currentScan, lastScanTime, activeScans,
                           tasks, nextId, toolRuns, cancelAcks, reply,
                   rngStream, fakeScans, scanLock>>
       ELSE CreateScan(t)

\* start_scan: an exception leaves the caller with nothing but the exception
StartScan(t, user_consent, installed) ==
    /\ nextId <= MaxScans
    /\ IF StartScanOutcome(t, user_consent, installed) # "pending"
       THEN UNCHANGED vars
       ELSE CreateScan(t)

\* `async with self._scan_lock` handing control to the event loop every time
AcquireSuspends_Always(lock) == TRUE

\* start_scan, line 169: entering `async with self._scan_lock` suspends the
\* caller only when the lock is held or another call already waits for it
AcquireSuspends(lock) ==
    lock.locked \/ \E c \in Callers : lock.waiters[c] # NoTarget

\* start_scan as the coroutine of caller c: one step runs it until it
\* suspends or returns.  Lines 141-166 run before the lock is asked for; a
\* call suspended at line 169 resumes inside the block, lines 170-216.
StartScanCall(c, t, user_consent, installed) ==
    /\ nextId <= MaxScans
    /\ IF scanLock.waiters[c] # NoTarget
       THEN IF _get_application_mode = "live" /\ ~nmapScanner /\ ~installed
            THEN /\ scanLock' = [scanLock EXCEPT !.waiters[c] = NoTarget]
                 /\ UNCHANGED <<maxNetworkSize, enableReal, mode, now,
                                nmapScanner, scanHistory, currentScan,
                                lastScanTime, store, activeScans, tasks,
                                nextId, toolRuns, cancelAcks, reply,
                                rngStream, fakeScans>>
            ELSE /\ RecordCreated(scanLock.waiters[c])
                 /\ scanLock' = [scanLock EXCEPT !.waiters[c] = NoTarget]
       ELSE IF StartScanOutcome(t, user_consent, TRUE) # "pending"
            THEN UNCHANGED vars
            ELSE IF AcquireSuspends(scanLock)
                 THEN /\ scanLock' = [scanLock EXCEPT !.waiters[c] = t]
                      /\ UNCHANGED <<maxNetworkSize, enableReal, mode, now,
                                     nmapScanner, scanHistory, currentScan,
                                     lastScanTime, store, activeScans, tasks,
                                     nextId, toolRuns, cancelAcks, reply,
                                     rngStream, fakeScans>>
                 ELSE StartScan(t, user_consent, installed)

\* the epilogue without line 244: the history keeps the PENDING record
Epilogue_HistoryKept(id, result, outcome) ==
    /\ store' = [store EXCEPT ![id] = result]
    /\ currentScan' = NoScan
    /\ lastScanTime' = now
    /\ tasks' = [tasks EXCEPT ![id].pc = "done", ![id].outcome = outcome]
    /\ UNCHANGED scanHistory

\* _run_scan_background, lines 240-262: the scanner returned `result`
Epilogue(id, result, outcome) ==
    /\ scanHistory' = [scanHistory EXCEPT ![id] = result]
    /\ store' = [store EXCEPT ![id] = result]
    /\ currentScan' = NoScan
    /\ lastScanTime' = now
    /\ tasks' = [tasks EXCEPT ![id].pc = "done", ![id].outcome = outcome]

\* the exception path without its save_scan call (lines 275-293)
Failed_NotStored(id, outcome) ==
    /\ scanHistory' = [scanHistory EXCEPT ![id].status = "failed",
                                          ![id].error = "scan_error"]
    /\ currentScan' = NoScan
    /\ tasks' = [tasks EXCEPT ![id].pc = "done", ![id].outcome = outcome]
    /\ UNCHANGED <<store, lastScanTime>>

\* _run_scan_background, lines 266-295: an exception reached the unit
Failed(id, outcome) ==
    /\ scanHistory' = [scanHistory EXCEPT ![id].status = "failed",
                                          ![id].error = "scan_error"]
    /\ store' = [store EXCEPT ![id] =
                    ScanRec("failed", "scan_error", scanHistory[id].progress)]
    /\ currentScan' = NoScan
    /\ tasks' = [tasks EXCEPT ![id].pc = "done", ![id].outcome = outcome]
    /\ UNCHANGED lastScanTime

\* The background unit from its first step to the scanner's suspension:
\* _get_scanner, then scan_network up to `await`.
BackgroundStart(id, installed) ==
    /\ tasks[id].pc = "scheduled"
    /\ LET t == tasks[id].target
           v == validate_target(t)
       IN  IF _get_application_mode = "live"
           THEN IF ~nmapScanner /\ ~installed
                THEN \* NmapScanner() raises RuntimeError
                     /\ Failed(id, "acquire_failed")
                     /\ UNCHANGED <<nmapScanner, activeScans, toolRuns>>
                ELSE IF v # "ok"
                THEN \* NmapScanner.scan_network, lines 204-214
                     /\ nmapScanner' = TRUE
                     /\ activeScans' = [activeScans EXCEPT ![id] =
                                           ScanRec("failed", "validation", 0)]
                     /\ Epilogue(id, ScanRec("failed", "validation", 0), "invalid")
                     /\ UNCHANGED toolRuns
                ELSE \* lines 149-179: RUNNING, then the tool runs
                     /\ nmapScanner' = TRUE
                     /\ activeScans' = [activeScans EXCEPT ![id] =
                                           ScanRec("running", None, 0)]
                     /\ toolRuns' = toolRuns \cup {t}
                     /\ tasks' = [tasks EXCEPT ![id].pc = "waiting",
                                               ![id].engine = "nmap"]
                     /\ UNCHANGED <<scanHistory, store, currentScan, lastScanTime>>
           ELSE \* FakeNetworkGenerator.scan_network up to the simulated delay
                /\ tasks' = [tasks EXCEPT ![id].pc = "waiting",
                                          ![id].engine = "fake"]
                /\ UNCHANGED <<nmapScanner, activeScans, toolRuns, scanHistory,
                               store, currentScan, lastScanTime>>
    /\ UNCHANGED <<maxNetworkSize, enableReal, mode, now, nextId,
                   cancelAcks, reply,
                   rngStream, fakeScans, scanLock>>

\* NmapScanner.scan_network from the return of _run_scan to its own return
NmapResume(rec, outcome) ==
    IF outcome = "ok" THEN ScanRec("completed", rec.error, 100)
    ELSE IF outcome = "timeout"
    THEN \* _run_scan sets FAILED and the message; lines 187-189 follow
         ScanRec("completed", "timeout", 100)
    ELSE ScanRec("failed", "scan_error", rec.progress)

\* the outcomes of the awaited external tool
NmapOutcomes == {"ok", "timeout", "tool_error"}

\* The background unit from the scanner's resumption to its exit.
BackgroundFinish(id, outcome) ==
    /\ tasks[id].pc = "waiting"
    /\ IF tasks[id].engine = "nmap"
       THEN /\ outcome \in NmapOutcomes
            /\ activeScans' = [activeScans EXCEPT ![id] = NmapResume(@, outcome)]
            /\ Epilogue(id, NmapResume(activeScans[id], outcome), outcome)
       ELSE /\ outcome = "ok"
            /\ Epilogue(id, ScanRec("completed", None, 100), outcome)
            /\ UNCHANGED activeScans
    /\ UNCHANGED <<maxNetworkSize, enableReal, mode, now,
                   nmapScanner, nextId, toolRuns, cancelAcks, reply,
                   rngStream, fakeScans, scanLock>>

\* NmapScanner.cancel_scan: TRUE iff the scan is known and RUNNING
NmapCanCancel(id) == activeScans[id].status = "running"

\* FakeNetworkGenerator.cancel_scan: always False
FakeCancelScan(id) == FALSE

\* cancel_scan answering True for whichever scan is the current one
CancelScanResult_AnyCurrent(id) == currentScan = id

\* ScanOrchestrator.cancel_scan: what it returns
CancelScanResult(id) == nmapScanner /\ NmapCanCancel(id)

\* ScanOrchestrator.cancel_scan
CancelScan(id) ==
    /\ IF CancelScanResult(id)
       THEN /\ activeScans' = [activeScans EXCEPT ![id].status = "cancelled"]
            /\ currentScan' = NoScan
            /\ cancelAcks' = cancelAcks \cup {id}
       ELSE UNCHANGED <<activeScans, currentScan, cancelAcks>>
    /\ UNCHANGED <<reply, rngStream, fakeScans, scanLock, maxNetworkSize, enableReal, mode, now,
                   nmapScanner, scanHistory, lastScanTime, store, tasks, nextId,
                   toolRuns>>

\* the stored mode preference is rewritten (PUT /settings/mode_settings)
SetMode(m) ==
    /\ m # mode
    /\ mode' = m
    /\ UNCHANGED <<maxNetworkSize, enableReal, now, nmapScanner,
                   scanHistory, currentScan, lastScanTime, store, activeScans,
                   tasks, nextId, toolRuns, cancelAcks, reply,
                   rngStream, fakeScans, scanLock>>

\* datetime.utcnow() advances
Tick ==
    /\ now < MaxTicks * TickStep
    /\ now' = now + TickStep
    /\ UNCHANGED <<maxNetworkSize, enableReal, mode, nmapScanner,
                   scanHistory, currentScan, lastScanTime, store, activeScans,
                   tasks, nextId, toolRuns, cancelAcks, reply,
                   rngStream, fakeScans, scanLock>>

(***************************************************************************)
(* NmapScanner used on its own: scan_network and discover_hosts called on  *)
(* a scanner that no orchestrator stands in front of.                      *)
(***************************************************************************)
DirectTargets == {HomeNet, PublicHost, LargeNet, Malformed}

\* NmapScanner.scan_network(target): the record it returns.  `outcome` is
\* what the awaited tool does when the call gets as far as running it.
DirectScan(t, outcome) ==
    IF validate_target(t) # "ok"
    THEN ScanRec("failed", "validation", 0)
    ELSE NmapResume(ScanRec("running", None, 0), outcome)

\* NmapScanner.scan_network(target) from its call to its return.  The
\* scanner shares no state with the orchestrator, so the suspension inside
\* the call is not a separate step here; what the call leaves behind is the
\* tool having been run on the target.
DirectScanNetwork(t) ==
    /\ toolRuns' = IF validate_target(t) # "ok" THEN toolRuns
                   ELSE toolRuns \cup {t}
    /\ UNCHANGED <<maxNetworkSize, enableReal, mode, now, nmapScanner,
                   scanHistory, currentScan, lastScanTime, store, activeScans,
                   tasks, nextId, cancelAcks, reply,
                   rngStream, fakeScans, scanLock>>

\* NmapScanner.discover_hosts(target): scan_network(target, DISCOVERY); the
\* addresses of the devices found are returned if the scan COMPLETED
DiscoverHosts(t) == DirectScanNetwork(t)

(***************************************************************************)
(* validate_target: the validator on its own (get_network_info).  The      *)
(* reply names the target, as the returned dictionary and the raised       *)
(* NetworkValidationError both do.                                         *)
(***************************************************************************)
ValidateTarget ==
    /\ reply.op = "validate_target"
    /\ reply.result = "called"
    /\ reply' = [reply EXCEPT !.result = validate(reply.target, maxNetworkSize)]
    /\ UNCHANGED <<maxNetworkSize, enableReal, mode, now, nmapScanner,
                   scanHistory, currentScan, lastScanTime, store, activeScans,
                   tasks, nextId, toolRuns, cancelAcks, rngStream, fakeScans, scanLock>>

\* addresses at and next to the ends of the allowed ranges
BoundaryAddrs ==
    {IP(10, 0, 0, 0), IP(9, 255, 255, 255), IP(10, 255, 255, 255), IP(11, 0, 0, 0),
     IP(172, 16, 0, 0), IP(172, 15, 255, 255), IP(172, 31, 255, 255), IP(172, 32, 0, 0),
     IP(192, 168, 0, 0), IP(192, 167, 255, 255), IP(192, 168, 255, 255), IP(192, 169, 0, 0),
     IP(127, 0, 0, 1), IP(126, 255, 255, 255), IP(128, 0, 0, 0),
     IP(169, 254, 0, 0), IP(169, 253, 255, 255), IP(169, 254, 255, 255), IP(169, 255, 0, 0),
     IP(192, 168, 1, 77), IP(8, 8, 8, 8), IP(0, 0, 0, 0), IP(255, 255, 255, 255)}

\* CIDR targets "a/p" for every IPv4 prefix length, and IPv6 loopback
CidrInputs ==
    {Cidr(4, a, p) : a \in BoundaryAddrs, p \in 0..MaxPrefixLen(4)}
        \cup {Cidr(6, <<0, 1>>, 128), Cidr(6, <<0, 1>>, 120), Cidr(6, <<0, 1>>, 64)}

ValidatorInputs ==
    CidrInputs \cup {Single(4, a) : a \in BoundaryAddrs}
               \cup {Single(6, <<0, 1>>), Malformed}

(***************************************************************************)
(* FakeNetworkGenerator: the simulated engine.                             *)
(*                                                                         *)
(* scan_network seeds a private random.Random with a hash of the target    *)
(* string and draws everything from it.  A draw is modelled by the         *)
(* fraction u/100 of its range that the generator yields, and the stream   *)
(* of a seed by a cycle of such fractions: rngStream gives the cycle of     *)
(* each seed, and a generator is the pair of its cycle and the position of *)
(* its next draw.  Which fractions Python's generator yields for a seed is *)
(* not modelled: every cycle over DrawValues is allowed.                   *)
(***************************************************************************)
StreamPeriod == 2

\* fractions (hundredths) a draw can take, from low to high
DrawValues == {5, 30, 50, 70, 95}

Cycles == [1..StreamPeriod -> DrawValues]

MidCycle == [i \in 1..StreamPeriod |-> 50]

\* next fraction of generator rng at position pos
NextDraw(rng, pos) == rng[((pos - 1) % StreamPeriod) + 1]

\* Random._randbelow(n)
_randbelow(rng, pos, n) == (NextDraw(rng, pos) * n) \div 100

\* Random.randint(a, b)
randint(rng, pos, a, b) == a + _randbelow(rng, pos, b - a + 1)

\* Random.choice(seq)
choice(rng, pos, seq) == seq[_randbelow(rng, pos, Len(seq)) + 1]

\* Random.random() > 0.1
random_above_tenth(rng, pos) == NextDraw(rng, pos) > 10

\* Random.sample(population, k): k distinct members, each drawn from the
\* members left, the last member left taking the place of the one drawn.
\* population is a sequence; the result is [items, pos] with pos the
\* position after the k draws.
RECURSIVE sample(_, _, _, _)
sample(rng, pos, population, k) ==
    IF k = 0
    THEN [items |-> <<>>, pos |-> pos]
    ELSE LET n == Len(population)
             j == _randbelow(rng, pos, n) + 1
             left == [i \in 1..(n - 1) |-> IF i = j THEN population[n] ELSE population[i]]
             rest == sample(rng, pos + 1, left, k - 1)
         IN  [items |-> <<population[j]>> \o rest.items, pos |-> rest.pos]

\* Random.choices(population, weights, k=1)[0]: the first member whose
\* cumulative weight exceeds the drawn fraction of the total, the last
\* member at the latest.  weighted is a sequence of <<member, weight>>.
RECURSIVE cum_weight(_, _)
cum_weight(weighted, i) == IF i = 0 THEN 0 ELSE weighted[i][2] + cum_weight(weighted, i - 1)

choices(rng, pos, weighted) ==
    LET n == Len(weighted)
        total == cum_weight(weighted, n)
        below == Cardinality({i \in 1..n :
                     cum_weight(weighted, i) * 100 <= NextDraw(rng, pos) * total})
    IN  weighted[IF below < n THEN below + 1 ELSE n][1]

DeviceTypeNames ==
    {"router", "switch", "access_point", "firewall", "server", "workstation",
     "laptop", "printer", "camera", "iot", "smart_tv", "game_console",
     "mobile", "nas", "unknown"}

\* DEVICE_TEMPLATES (the service names of the ports are left out)
DEVICE_TEMPLATES ==
    [router      |-> [ports |-> <<80, 443, 22, 23, 53>>,
                      hostname_prefix |-> "router", os |-> "Linux 3.x - 4.x"],
     printer     |-> [ports |-> <<631, 9100, 80, 443>>,
                      hostname_prefix |-> "printer", os |-> None],
     nas         |-> [ports |-> <<22, 80, 139, 445, 548, 2049, 5000, 5001>>,
                      hostname_prefix |-> "nas", os |-> "Linux 4.x"],
     workstation |-> [ports |-> <<135, 139, 445, 3389>>,
                      hostname_prefix |-> "workstation", os |-> "Windows 10"],
     server      |-> [ports |-> <<22, 80, 443, 3306, 5432>>,
                      hostname_prefix |-> "server", os |-> "Ubuntu Linux"],
     laptop      |-> [ports |-> <<22>>,
                      hostname_prefix |-> "laptop", os |-> "macOS"],
     iot         |-> [ports |-> <<80, 443, 1883, 8883>>,
                      hostname_prefix |-> "iot-device", os |-> None],
     camera      |-> [ports |-> <<80, 554, 8080>>,
                      hostname_prefix |-> "camera", os |-> None]]

\* MAC_VENDORS, in the order of the dictionary
MAC_VENDORS ==
    << <<"00:1A:70", "Netgear">>, <<"00:11:22", "Cisco">>,
       <<"00:50:56", "VMware">>, <<"08:00:27", "VirtualBox">>,
       <<"00:0C:29", "VMware">>, <<"00:16:3E", "Xen">>,
       <<"52:54:00", "QEMU">>, <<"AC:DE:48", "TP-Link">>,
       <<"B8:27:EB", "Raspberry Pi">>, <<"DC:A6:32", "Raspberry Pi">> >>

\* _generate_seed: SHA-256 of the target string, first four bytes.  The
\* seed is a function of the target string and of nothing else; the model
\* takes the target itself as the seed (no two targets of the model share
\* a seed).
_generate_seed(target) == target

\* _parse_network: list(IPv4Network(target, strict=False).hosts()), in
\* ascending order (networks of at most 2^16 addresses)
_parse_network(target) ==
    LET lo == network_address(target)
        skip == IF HostBits(target) <= 1 THEN 1 ELSE 0
        n == IF HostBits(target) <= 1 THEN num_addresses(target)
             ELSE num_addresses(target) - 2
    IN  [i \in 1..n |-> <<lo[1], lo[2] + i - skip>>]

\* str(network.network_address).startswith('10.') / ('192.168.')
NetworkClass(target) ==
    LET a == network_address(target)
    IN  IF a[1] \div 256 = 10 THEN "enterprise"
        ELSE IF a[1] = 192 * 256 + 168 THEN "home"
        ELSE "office"

\* ranges with the home class given the range of the third class
DeviceRange_HomeAsOffice(target) ==
    IF NetworkClass(target) = "enterprise" THEN <<5, 20>> ELSE <<4, 18>>

\* scan_network: min_devices, max_devices
DeviceRange(target) ==
    CASE NetworkClass(target) = "enterprise" -> <<5, 20>>
      [] NetworkClass(target) = "home" -> <<3, 15>>
      [] OTHER -> <<4, 18>>

\* _select_device_types: the weights of the types other than the router,
\* in tenths, in the order of the dictionary
TypeWeights(target) ==
    CASE NetworkClass(target) = "home" ->
            << <<"laptop", 4>>, <<"workstation", 2>>, <<"printer", 3>>,
               <<"iot", 4>>, <<"camera", 2>>, <<"nas", 1>> >>
      [] NetworkClass(target) = "enterprise" ->
            << <<"server", 5>>, <<"workstation", 6>>, <<"printer", 4>>,
               <<"nas", 3>>, <<"laptop", 3>>, <<"iot", 1>> >>
      [] OTHER ->
            << <<"workstation", 5>>, <<"laptop", 4>>, <<"server", 3>>,
               <<"printer", 4>>, <<"nas", 2>>, <<"iot", 2>> >>

\* _select_device_types: the router first, then count - 1 weighted draws.
\* The result is [types, pos].
RECURSIVE _select_more_types(_, _, _, _)
_select_more_types(rng, pos, target, k) ==
    IF k <= 0
    THEN [types |-> <<>>, pos |-> pos]
    ELSE LET rest == _select_more_types(rng, pos + 1, target, k - 1)
         IN  [types |-> <<choices(rng, pos, TypeWeights(target))>> \o rest.types,
              pos |-> rest.pos]

_select_device_types(rng, pos, target, count) ==
    LET more == _select_more_types(rng, pos, target, count - 1)
    IN  [types |-> <<"router">> \o more.types, pos |-> more.pos]

NoMac == <<>>
NoHostname == <<>>

SeqToSet(s) == {s[i] : i \in 1..Len(s)}

\* _generate_mac: a vendor prefix and three bytes
_generate_mac(rng, pos) ==
    <<choice(rng, pos, MAC_VENDORS)[1], randint(rng, pos + 1, 0, 255),
      randint(rng, pos + 2, 0, 255), randint(rng, pos + 3, 0, 255)>>

\* _get_vendor_from_mac
_get_vendor_from_mac(mac) ==
    IF \E i \in 1..Len(MAC_VENDORS) : MAC_VENDORS[i][1] = mac[1]
    THEN (CHOOSE v \in SeqToSet(MAC_VENDORS) : v[1] = mac[1])[2]
    ELSE "Unknown"

\* a generator that leaves the ports of a down host in its report
_generate_device_DownKeepsPorts(rng, pos, ip, device_type, index) ==
    LET template == DEVICE_TEMPLATES[device_type]
        mac == _generate_mac(rng, pos)
        vendor == _get_vendor_from_mac(mac)
        hostname == <<template.hostname_prefix, index>>
        all_ports == template.ports
        half == Len(all_ports) \div 2
        num_ports == randint(rng, pos + 4, IF half > 1 THEN half ELSE 1, Len(all_ports))
        selected_ports == sample(rng, pos + 5, all_ports, num_ports)
        is_up == random_above_tenth(rng, selected_ports.pos)
        has_os == is_up /\ template.os # None
    IN  [device |->
            [ip |-> ip,
             mac |-> IF is_up THEN mac ELSE NoMac,
             hostname |-> IF is_up THEN hostname ELSE NoHostname,
             vendor |-> IF is_up THEN vendor ELSE None,
             device_type |-> IF is_up THEN device_type ELSE "unknown",
             os |-> IF has_os THEN template.os ELSE None,
             os_accuracy |-> IF has_os THEN randint(rng, selected_ports.pos + 1, 80, 95)
                             ELSE 0,
             open_ports |-> SeqToSet(selected_ports.items),
             is_up |-> is_up],
         pos |-> selected_ports.pos + (IF has_os THEN 2 ELSE 1)]

\* _generate_device: the draws are made whether the host is up or not, and
\* a host that is down is reported with its address alone.  The result is
\* [device, pos]; os_accuracy 0 stands for None.
\* open_ports is the set of the ports drawn (the code sorts the list).
\* last_seen (the wall clock) is left out.
_generate_device(rng, pos, ip, device_type, index) ==
    LET template == DEVICE_TEMPLATES[device_type]
        mac == _generate_mac(rng, pos)
        vendor == _get_vendor_from_mac(mac)
        hostname == <<template.hostname_prefix, index>>
        all_ports == template.ports
        half == Len(all_ports) \div 2
        num_ports == randint(rng, pos + 4, IF half > 1 THEN half ELSE 1, Len(all_ports))
        selected_ports == sample(rng, pos + 5, all_ports, num_ports)
        is_up == random_above_tenth(rng, selected_ports.pos)
        has_os == is_up /\ template.os # None
    IN  [device |->
            [ip |-> ip,
             mac |-> IF is_up THEN mac ELSE NoMac,
             hostname |-> IF is_up THEN hostname ELSE NoHostname,
             vendor |-> IF is_up THEN vendor ELSE None,
             device_type |-> IF is_up THEN device_type ELSE "unknown",
             os |-> IF has_os THEN template.os ELSE None,
             os_accuracy |-> IF has_os THEN randint(rng, selected_ports.pos + 1, 80, 95)
                             ELSE 0,
             open_ports |-> IF is_up THEN SeqToSet(selected_ports.items) ELSE {},
             is_up |-> is_up],
         pos |-> selected_ports.pos + (IF has_os THEN 2 ELSE 1)]

\* scan_network: the loop over zip(selected_ips, device_types), from the
\* i-th pair on
RECURSIVE GenerateDevices(_, _, _, _, _)
GenerateDevices(rng, pos, ips, types, i) ==
    IF i > Len(ips) \/ i > Len(types)
    THEN <<>>
    ELSE LET d == _generate_device(rng, pos, ips[i], types[i], i)
         IN  <<d.device>> \o GenerateDevices(rng, d.pos, ips, types, i + 1)

ScanTypes == {"quick", "deep"}

\* scan_id argument: None, or an id given by the caller
FakeScanIds == {None, "scan-a"}

\* a generator that finds every device of the range on a deep scan
DeviceCount_DeepFindsAll(rng, target, scan_type) ==
    IF scan_type = "deep" THEN DeviceRange(target)[2]
    ELSE randint(rng, 1, DeviceRange(target)[1], DeviceRange(target)[2])

\* scan_network: device_count, the first draw of the generator.  The scan
\* type is not consulted.
DeviceCount(rng, target, scan_type) ==
    randint(rng, 1, DeviceRange(target)[1], DeviceRange(target)[2])

\* scan_network from rng = random.Random(seed) on: the ScanResult returned
\* for a target by a generator with stream rng.  scan_type and scan_id are
\* copied into the result and are used for nothing else; the timestamps of
\* the result (the wall clock) are left out.
scan_network_seeded(rng, target, scan_type, scan_id) ==
    LET parsed == _parse_network(target)
        seed == _generate_seed(target)
        device_count == DeviceCount(rng, target, scan_type)
        selected_ips == sample(rng, 2, parsed,
                               IF device_count < Len(parsed) THEN device_count
                               ELSE Len(parsed))
        device_types == _select_device_types(rng, selected_ips.pos, target, device_count)
        devices == GenerateDevices(rng, device_types.pos, selected_ips.items,
                                   device_types.types, 1)
    IN  [scan_id |-> IF scan_id # None THEN <<scan_id>> ELSE <<"fake-scan", seed>>,
         target_range |-> target,
         scan_type |-> scan_type,
         status |-> "completed",
         progress |-> 100,
         scanned_hosts |-> Len(selected_ips.items),
         total_hosts |-> Len(parsed),
         devices |-> devices]

\* targets handed to the simulated engine: a home /24, an enterprise /24,
\* a four-address network of the third class, a single address
SmallNet == Cidr(4, IP(172, 16, 0, 0), 30)
SingleHost == Single(4, IP(192, 168, 1, 77))
FakeTargets == {HomeNet, OfficeNet, SmallNet, SingleHost}

\* scan_network_seeded, tabulated for every stream, target, scan type and
\* scan id (comparing the table with itself makes TLC compute it in full,
\* once)
GeneratorResults ==
    LET table == [rng \in Cycles |-> [t \in FakeTargets |-> [k \in ScanTypes |->
                    [id \in FakeScanIds |-> scan_network_seeded(rng, t, k, id)]]]]
    IN  IF table = table THEN table ELSE table

\* scan_network: the generator is seeded with the seed of the target
scan_network(target, scan_type, scan_id) ==
    GeneratorResults[rngStream[_generate_seed(target)]][target][scan_type][scan_id]

NoFakeScans == [t \in FakeTargets |-> [devices |-> {}, kinds |-> {}]]

\* a call of FakeNetworkGenerator.scan_network; fakeScans keeps, for each
\* target, the device lists returned for it and the scan types asked for
FakeScanNetwork(target, scan_type, scan_id) ==
    /\ fakeScans' = [fakeScans EXCEPT ![target] =
                        [devices |-> @.devices \cup
                                     {scan_network(target, scan_type, scan_id).devices},
                         kinds |-> @.kinds \cup {scan_type}]]
    /\ UNCHANGED <<maxNetworkSize, enableReal, mode, now, nmapScanner,
                   scanHistory, currentScan, lastScanTime, store, activeScans,
                   tasks, nextId, toolRuns, cancelAcks, reply, rngStream,
                   scanLock>>

\* the simulated engine is not called: no call recorded, every seed with
\* the middle stream
GeneratorIdle ==
    /\ rngStream = [t \in FakeTargets |-> MidCycle]
    /\ fakeScans = NoFakeScans


(***************************************************************************)
(* DeviceFingerprinter: classification of a device by its open ports.      *)
(* A device is given by its address, the set of its open port numbers and  *)
(* the set of service names detected on them (open_port_numbers and        *)
(* services of _identify_type).                                            *)
(***************************************************************************)
\* DEVICE_SIGNATURES: required_any and services of each signature
DEVICE_SIGNATURES ==
    [printer |-> [required_any |-> {515, 631, 9100},
                  services |-> {"lpd", "ipp", "jetdirect"}],
     camera  |-> [required_any |-> {554, 8554},
                  services |-> {"rtsp"}],
     nas     |-> [required_any |-> {139, 445, 548},
                  services |-> {"smb", "afp", "ftp"}],
     iot     |-> [required_any |-> {1883, 8883, 5683},
                  services |-> {"mqtt", "coap"}]]

\* a match on a service name alone, without any of the required ports
_matches_signature_ServiceAlone(device_type, open_ports, services) ==
    LET signature == DEVICE_SIGNATURES[device_type]
    IN  \/ services \cap signature.services # {}
        \/ open_ports \cap signature.required_any # {}

\* _matches_signature
_matches_signature(device_type, open_ports, services) ==
    LET signature == DEVICE_SIGNATURES[device_type]
    IN  IF signature.required_any # {} /\ open_ports \cap signature.required_any = {}
        THEN FALSE
        ELSE IF signature.services # {} /\ services \cap signature.services # {}
        THEN TRUE
        ELSE signature.required_any # {} /\ open_ports \cap signature.required_any # {}

\* device.ip.endswith(".1") or device.ip.endswith(".254")
GatewayShaped(ip) == (ip[2] % 256) \in {1, 254}

\* a classifier that looks for file sharing before remote desktop
_identify_type_NasBeforeRemoteDesktop(device) ==
    LET open_port_numbers == device.open_ports
        services == device.services
        workstation_ports == {135, 139, 445}
        server_ports == {21, 22, 25, 53, 80, 110, 143, 443, 993, 995}
    IN  IF open_port_numbers = {} THEN "unknown"
        ELSE IF _matches_signature("printer", open_port_numbers, services) THEN "printer"
        ELSE IF _matches_signature("camera", open_port_numbers, services) THEN "camera"
        ELSE IF _matches_signature("nas", open_port_numbers, services) THEN "nas"
        ELSE IF 3389 \in open_port_numbers \/ 5900 \in open_port_numbers THEN "workstation"
        ELSE IF 135 \in open_port_numbers THEN "workstation"
        ELSE IF _matches_signature("iot", open_port_numbers, services) THEN "iot"
        ELSE IF /\ GatewayShaped(device.ip)
                /\ (80 \in open_port_numbers \/ 443 \in open_port_numbers) THEN "router"
        ELSE IF Cardinality(open_port_numbers \cap server_ports) >= 3 THEN "server"
        ELSE IF open_port_numbers \cap workstation_ports # {} THEN "workstation"
        ELSE IF Cardinality(open_port_numbers) > 5 THEN "server"
        ELSE "workstation"

\* _identify_type: the rules in the order of the code, the first that
\* matches deciding
_identify_type(device) ==
    LET open_port_numbers == device.open_ports
        services == device.services
        workstation_ports == {135, 139, 445}
        server_ports == {21, 22, 25, 53, 80, 110, 143, 443, 993, 995}
    IN  IF open_port_numbers = {} THEN "unknown"
        ELSE IF _matches_signature("printer", open_port_numbers, services) THEN "printer"
        ELSE IF _matches_signature("camera", open_port_numbers, services) THEN "camera"
        ELSE IF 3389 \in open_port_numbers \/ 5900 \in open_port_numbers THEN "workstation"
        ELSE IF _matches_signature("nas", open_port_numbers, services) THEN "nas"
        ELSE IF open_port_numbers \cap workstation_ports # {} /\ 135 \in open_port_numbers
             THEN "workstation"
        ELSE IF _matches_signature("iot", open_port_numbers, services) THEN "iot"
        ELSE IF /\ GatewayShaped(device.ip)
                /\ (80 \in open_port_numbers \/ 443 \in open_port_numbers) THEN "router"
        ELSE IF Cardinality(open_port_numbers \cap server_ports) >= 3 THEN "server"
        ELSE IF open_port_numbers \cap workstation_ports # {} THEN "workstation"
        ELSE IF Cardinality(open_port_numbers) > 5 THEN "server"
        ELSE IF Cardinality(open_port_numbers) > 0 THEN "workstation"
        ELSE "unknown"

\* identify_device: the device type is set from _identify_type.  The
\* devices handed in carry no MAC address, so the vendor is left as it is.
IdentifyDevice ==
    /\ reply.op = "identify_device"
    /\ reply.result = "called"
    /\ reply' = [reply EXCEPT !.result = "returned",
                              !.device.device_type = _identify_type(reply.device)]
    /\ UNCHANGED <<maxNetworkSize, enableReal, mode, now, nmapScanner,
                   scanHistory, currentScan, lastScanTime, store, activeScans,
                   tasks, nextId, toolRuns, cancelAcks, rngStream, fakeScans, scanLock>>

\* largest number of open ports of a device handed to the fingerprinter
MaxOpenPorts == 4

\* ports the rules look at, and two they do not look at
FingerprintPorts ==
    {3389, 5900, 515, 631, 9100, 554, 8554, 135, 139, 445, 548, 1883, 22, 80,
     443, 53, 3306, 8080}

\* service names detected on the open ports, if any
FingerprintServices == {"jetdirect", "rtsp", "smb"}

\* a gateway-shaped address (.1), another (.254) and an ordinary one
FingerprintAddrs == {IP(192, 168, 1, 1), IP(10, 0, 0, 254), IP(192, 168, 1, 200)}

\* ports no rule looks at
NeutralPorts == {3306, 5432, 6379, 8081, 8443, 27017}

\* devices with five or six ports no rule looks at, and other ports besides
CrowdedInputs ==
    {[ip |-> a, mac |-> NoMac, vendor |-> None, open_ports |-> base \cup ps,
      services |-> {}, device_type |-> None] :
        a \in FingerprintAddrs,
        base \in {NeutralPorts, NeutralPorts \ {3306}},
        ps \in SUBSET {22, 80, 443, 135, 9100}}

\* devices as a scan pass hands them over: not yet classified
FingerprintInputs ==
    {[ip |-> a, mac |-> NoMac, vendor |-> None, open_ports |-> ps,
      services |-> ss, device_type |-> None] :
        a \in FingerprintAddrs,
        ps \in {p \in SUBSET FingerprintPorts : Cardinality(p) <= MaxOpenPorts},
        ss \in SUBSET FingerprintServices}

InitConfig(sizes, calls) ==
    /\ maxNetworkSize \in sizes
    /\ enableReal \in BOOLEAN
    /\ mode = "unset"
    /\ now = 0
    /\ nmapScanner = FALSE
    /\ scanHistory = [i \in Ids |-> Absent]
    /\ currentScan = NoScan
    /\ lastScanTime = Never
    /\ store = [i \in Ids |-> Absent]
    /\ activeScans = [i \in Ids |-> Absent]
    /\ tasks = [i \in Ids |-> IdleTask]
    /\ nextId = 1
    /\ toolRuns = {}
    /\ cancelAcks = {}
    /\ reply \in calls
    /\ scanLock = Unlocked

Init == InitConfig({MAX_NETWORK_SIZE}, {NoReply}) /\ GeneratorIdle

Next ==
    \/ \E t \in ScanTargets, c \in BOOLEAN, inst \in BOOLEAN : StartScan(t, c, inst)
    \/ \E i \in Ids, inst \in BOOLEAN : BackgroundStart(i, inst)
    \/ \E i \in Ids, o \in NmapOutcomes : BackgroundFinish(i, o)
    \/ \E i \in Ids : CancelScan(i)
    \/ \E m \in {"training", "live"} : SetMode(m)
    \/ Tick

Spec == Init /\ [][Next]_vars

\* the orchestrator with each start_scan call run as a coroutine of its caller
NextCalls ==
    \/ \E c \in Callers, t \in ScanTargets, u \in BOOLEAN, inst \in BOOLEAN :
           StartScanCall(c, t, u, inst)
    \/ \E i \in Ids, inst \in BOOLEAN : BackgroundStart(i, inst)
    \/ \E i \in Ids, o \in NmapOutcomes : BackgroundFinish(i, o)
    \/ \E i \in Ids : CancelScan(i)
    \/ \E m \in {"training", "live"} : SetMode(m)
    \/ Tick

SpecCalls == Init /\ [][NextCalls]_vars

\* the orchestrator when the stored mode preference can also be overwritten
\* with a value that is not a JSON object
NextModes ==
    \/ Next
    \/ SetMode("corrupt")

SpecModes == Init /\ [][NextModes]_vars

\* the orchestrator together with callers of a scanner of their own
NextEngine ==
    \/ Next
    \/ \E t \in DirectTargets : DirectScanNetwork(t)
    \/ \E t \in DirectTargets : DiscoverHosts(t)

SpecEngine == Init /\ [][NextEngine]_vars

\* the orchestrator while the stored mode is never "live"; every background
\* unit the event loop holds is eventually run, and a unit suspended in its
\* scanner is eventually resumed
NextTraining ==
    \/ \E t \in ScanTargets, c \in BOOLEAN, inst \in BOOLEAN : StartScan(t, c, inst)
    \/ \E i \in Ids, inst \in BOOLEAN : BackgroundStart(i, inst)
    \/ \E i \in Ids, o \in NmapOutcomes : BackgroundFinish(i, o)
    \/ \E i \in Ids : CancelScan(i)
    \/ SetMode("training")
    \/ Tick

FairUnits ==
    \A i \in Ids :
        /\ WF_vars(\E inst \in BOOLEAN : BackgroundStart(i, inst))
        /\ WF_vars(\E o \in NmapOutcomes : BackgroundFinish(i, o))

SpecTraining == Init /\ [][NextTraining]_vars /\ FairUnits

\* the validator on every input and under every configured maximum
InitValidate ==
    /\ InitConfig(MaxSizes, {[op |-> "validate_target", result |-> "called", target |-> t] :
                             t \in ValidatorInputs})
    /\ GeneratorIdle

NextValidate == ValidateTarget

SpecValidate == InitValidate /\ [][NextValidate]_vars

(***************************************************************************)
(* The simulated engine on its own: the stream of one seed is any cycle,   *)
(* the streams of the other seeds are the middle stream; scan_network is   *)
(* called on any target, with any scan type and scan id, in any order.     *)
(***************************************************************************)
InitFake ==
    /\ InitConfig({MAX_NETWORK_SIZE}, {NoReply})
    /\ ~enableReal
    /\ fakeScans = NoFakeScans
    /\ \E t \in FakeTargets, c \in Cycles :
          rngStream = [s \in FakeTargets |-> IF s = _generate_seed(t) THEN c ELSE MidCycle]

NextFake ==
    \E t \in FakeTargets, k \in ScanTypes, id \in FakeScanIds : FakeScanNetwork(t, k, id)

SpecFake == InitFake /\ [][NextFake]_vars

\* the fingerprinter on every device of FingerprintInputs whose services
\* fit its ports (a service name belongs to an open port), and on the
\* devices of CrowdedInputs
InitFingerprint ==
    /\ InitConfig({MAX_NETWORK_SIZE},
                  {[op |-> "identify_device", result |-> "called", device |-> d] :
                      d \in CrowdedInputs \cup
                            {x \in FingerprintInputs :
                                Cardinality(x.services) <= Cardinality(x.open_ports)}})
    /\ ~enableReal
    /\ GeneratorIdle

NextFingerprint == IdentifyDevice

SpecFingerprint == InitFingerprint /\ [][NextFingerprint]_vars




(***************************************************************************)
(* Properties                                                              *)
(***************************************************************************)
\* the allowed ranges as first and last address: 10.0.0.0/8, 172.16.0.0/12,
\* 192.168.0.0/16, 127.0.0.0/8, 169.254.0.0/16
AllowedSpans ==
    {<<IP(10, 0, 0, 0), IP(10, 255, 255, 255)>>,
     <<IP(172, 16, 0, 0), IP(172, 31, 255, 255)>>,
     <<IP(192, 168, 0, 0), IP(192, 168, 255, 255)>>,
     <<IP(127, 0, 0, 0), IP(127, 255, 255, 255)>>,
     <<IP(169, 254, 0, 0), IP(169, 254, 255, 255)>>}

\* the whole address range of t lies inside one allowed range
WithinAllowedSpan(t) ==
    /\ t.ver = 4
    /\ \E r \in AllowedSpans :
           /\ AddrLE(r[1], network_address(t))
           /\ AddrLE(broadcast_address(t), r[2])

\* validate must succeed on t: inside one allowed range and, for a
\* network, of at most the configured number of addresses
MayBeScanned(t) ==
    /\ t.kind \in {"cidr", "ip"}
    /\ WithinAllowedSpan(t)
    /\ t.kind = "cidr" => num_addresses(t) <= maxNetworkSize

\* a second start_scan arrives in rapid succession
Cooling == lastScanTime # Never /\ now - lastScanTime < SCAN_COOLDOWN

\* scan ids with a record whose status is RUNNING
RunningRecords ==
    {i \in Ids : \/ scanHistory[i].status = "running"
                 \/ activeScans[i].status = "running"
                 \/ store[i].status = "running"}

\* the failures start_scan raises for validation and policy reasons
PolicyFailures ==
    {"InvalidFormat", "NotPrivate", "TooLarge", "ConsentRequired",
     "ScanInProgress", "CooldownActive", "ScanningDisabled"}

\* validate has answered a CIDR target
CidrAnswered ==
    /\ reply.op = "validate_target"
    /\ reply.result # "called"
    /\ reply.target.kind = "cidr"

\* C1: for every CIDR target and every configured maximum, validate
\* succeeds exactly when the target's address range lies inside one allowed
\* range and its address count is at most the configured maximum.
C1_ValidateIffContainedAndWithinMax ==
    CidrAnswered =>
        (reply.result = "ok" <=>
            /\ WithinAllowedSpan(reply.target)
            /\ num_addresses(reply.target) <= maxNetworkSize)

C3_RapidSecondStartRejected ==
    [][\A t \in ScanTargets, inst \in BOOLEAN :
          ( /\ MayBeScanned(t)
            /\ InFlight # {} \/ Cooling
            /\ StartScan(t, TRUE, inst) )
          => /\ StartScanOutcome(t, TRUE, inst) \in {"ScanInProgress", "CooldownActive"}
             /\ UNCHANGED <<scanHistory, store, tasks>>]_vars

\* C4: at most one background unit is in flight and at most one scan record
\* is RUNNING.
C4_AtMostOneActiveScan ==
    /\ Cardinality(InFlight) <= 1
    /\ Cardinality(RunningRecords) <= 1

\* C5: start_scan without consent fails with ConsentRequired for every
\* target in every state, and creates no record in memory or in storage.
C5_NoConsentAlwaysRefused ==
    /\ [](\A t \in ScanTargets, inst \in BOOLEAN :
            StartScanOutcome(t, FALSE, inst) = "ConsentRequired")
    /\ [][\A t \in ScanTargets, inst \in BOOLEAN :
            StartScan(t, FALSE, inst) => UNCHANGED <<scanHistory, store>>]_vars

\* C5 witness: consent is refused in live mode with real scanning disabled,
\* a scan in flight and a public target
C5_RefusedWhileBusyAndDisabled ==
    /\ InFlight # {}
    /\ mode = "live"
    /\ ~enableReal
    /\ StartScanOutcome(PublicHost, FALSE, FALSE) = "ConsentRequired"
    /\ StartScanOutcome(LargeNet, FALSE, TRUE) = "ConsentRequired"

\* C6: a start_scan that fails with a validation or policy failure leaves
\* the history, the current-scan marker, the last-completion time and the
\* stored rows unchanged and schedules no background unit.
C6_FailedStartChangesNothing ==
    [][\A t \in ScanTargets, c \in BOOLEAN, inst \in BOOLEAN :
          ( /\ StartScanOutcome(t, c, inst) \in PolicyFailures
            /\ StartScan(t, c, inst) )
          => UNCHANGED <<scanHistory, currentScan, lastScanTime, store, tasks>>]_vars

\* C6 witness: after a completed scan, start_scan fails in a state that has
\* records to lose: in cooldown for a valid target, NotPrivate for a public one
C6_FailsWithHistoryPresent ==
    /\ \E i \in Ids : scanHistory[i].status = "completed" /\ store[i].status = "completed"
    /\ StartScanOutcome(HomeNet, TRUE, TRUE) = "CooldownActive"
    /\ StartScanOutcome(PublicHost, TRUE, TRUE) = "NotPrivate"
    /\ StartScanOutcome(LargeNet, TRUE, TRUE) = "TooLarge"

\* C7: once get_scan_status reports COMPLETED, FAILED or CANCELLED for a
\* scan, it reports that same status ever after.
C7_TerminalStatusAbsorbing ==
    [][\A i \in Ids :
          get_scan_status(i).status \in Terminal
          => get_scan_status(i)'.status = get_scan_status(i).status]_vars

\* C8: in training mode an accepted start_scan leaves a PENDING record and
\* a background unit that has not run yet, and get_scan_status for that
\* scan eventually returns COMPLETED with progress 100.
C8_TrainingScanPendingThenCompleted ==
    /\ [][\A i \in Ids :
            scanHistory[i].status = "absent" /\ scanHistory'[i].status # "absent"
            => /\ get_scan_status(i)' = ScanRec("pending", None, 0)
               /\ tasks'[i].pc = "scheduled"]_vars
    /\ \A i \in Ids :
            (tasks[i].pc = "scheduled")
                ~> (get_scan_status(i) = ScanRec("completed", None, 100))

\* C8 witness: a scan run by the simulated engine is reported COMPLETED
\* with progress 100 while a later scan is still PENDING
C8_TrainingScanCompleted ==
    \E i, j \in Ids :
        /\ tasks[i].engine = "fake"
        /\ get_scan_status(i) = ScanRec("completed", None, 100)
        /\ get_scan_status(j).status = "pending"

\* C9: a real-engine scan whose tool run exceeded the maximum duration ends
\* with a record, in memory and in storage, that is FAILED and carries the
\* timeout message.
C9_TimeoutEndsFailed ==
    \A i \in Ids :
        tasks[i].pc = "done" /\ tasks[i].outcome = "timeout"
        => /\ scanHistory[i].status = "failed"
           /\ scanHistory[i].error = "timeout"
           /\ store[i].status = "failed"

\* C10: once cancel_scan(id) has returned true and the background unit has
\* exited, get_scan_status(id) and the stored row both say CANCELLED.
C10_CancelledStaysCancelled ==
    \A i \in cancelAcks :
        tasks[i].pc = "done"
        => /\ get_scan_status(i).status = "cancelled"
           /\ store[i].status = "cancelled"

\* every scan this orchestrator has run so far was run by the simulated
\* engine
OnlyTrainingScans ==
    \A i \in Ids : tasks[i].pc \in {"waiting", "done"} => tasks[i].engine = "fake"

\* C11: cancelling a simulated scan reports failure and changes nothing: the
\* simulated engine's cancel_scan returns false for every id, and on an
\* orchestrator that has only run training-mode scans cancel_scan returns
\* false and leaves history, current-scan marker and last-completion time
\* unchanged.
C11_TrainingCancelIsNoOp ==
    /\ [](\A i \in Ids :
            /\ ~FakeCancelScan(i)
            /\ OnlyTrainingScans => ~CancelScanResult(i))
    /\ [][\A i \in Ids :
            OnlyTrainingScans /\ CancelScan(i)
            => UNCHANGED <<scanHistory, currentScan, lastScanTime>>]_vars

\* C11 witness: a simulated scan is in flight and is the current scan, the
\* real scanner object exists, and cancelling the scan is refused
C11_CancelRefusedForRunningTrainingScan ==
    \E i \in Ids :
        /\ tasks[i].pc = "waiting"
        /\ tasks[i].engine = "fake"
        /\ currentScan = i
        /\ nmapScanner
        /\ OnlyTrainingScans
        /\ ~CancelScanResult(i)

\* how a background unit ends when something failed inside it: the scanner
\* could not be acquired, or the scan tool raised
UnitFailures == {"acquire_failed", "tool_error"}

C13_CooldownExactlyWithinWindow ==
    InFlight = {} =>
        \A t \in ScanTargets, inst \in BOOLEAN :
            MayBeScanned(t) =>
                /\ StartScanOutcome(t, TRUE, inst) = "CooldownActive"
                       <=> (lastScanTime # Never /\ now - lastScanTime < SCAN_COOLDOWN)
                /\ StartScanOutcome(t, TRUE, inst) = "CooldownActive"
                       => cooldown_remaining \in 1..SCAN_COOLDOWN

\* C13 witness: half of the window has elapsed since a completion, no scan
\* is running, and start_scan is refused with half the window remaining
C13_RefusedHalfwayThroughWindow ==
    /\ InFlight = {}
    /\ lastScanTime # Never
    /\ now - lastScanTime = TickStep
    /\ StartScanOutcome(HomeNet, TRUE, TRUE) = "CooldownActive"
    /\ cooldown_remaining = SCAN_COOLDOWN - TickStep

\* C14: with real scanning disabled, a start_scan that passes consent,
\* validation and the rate limits fails with ScanningDisabled and creates
\* no record when the mode is live, and returns a PENDING record when the
\* mode is training.
C14_DisabledBlocksLiveOnly ==
    /\ [](\A t \in ScanTargets, inst \in BOOLEAN :
            ~enableReal /\ MayBeScanned(t) /\ _check_rate_limits = "ok"
            => /\ mode = "live"
                   => StartScanOutcome(t, TRUE, inst) = "ScanningDisabled"
               /\ mode \in {"training", "unset", "corrupt"}
                   => StartScanOutcome(t, TRUE, inst) = "pending")
    /\ [][\A t \in ScanTargets, inst \in BOOLEAN :
            ~enableReal /\ _check_rate_limits = "ok" /\ nextId <= MaxScans
                /\ StartScan(t, TRUE, inst) /\ MayBeScanned(t)
            => IF mode = "live"
               THEN UNCHANGED <<scanHistory, store, tasks, currentScan>>
               ELSE /\ scanHistory'[nextId] = ScanRec("pending", None, 0)
                    /\ store'[nextId].status = "pending"]_vars

\* C14 witness: real scanning is disabled, a scan accepted in training mode
\* has completed and its cooldown has elapsed, the mode is now live and
\* start_scan is refused with ScanningDisabled
C14_LiveRefusedAfterTrainingScan ==
    /\ ~enableReal
    /\ mode = "live"
    /\ \E i \in Ids : tasks[i].engine = "fake" /\ scanHistory[i].status = "completed"
    /\ _check_rate_limits = "ok"
    /\ nextId <= MaxScans
    /\ StartScanOutcome(HomeNet, TRUE, TRUE) = "ScanningDisabled"

\* C15: each scanner acquisition follows the stored mode of that moment:
\* the real engine exactly when "live" is stored, the simulated engine when
\* "training" is stored, nothing is stored or the stored value cannot be
\* read; a scan started and run after the stored mode was changed is run by
\* the engine of the new mode.
C15_EngineFollowsStoredMode ==
    [][\A i \in Ids :
          tasks[i].pc = "scheduled" /\ tasks'[i].pc # "scheduled"
          => /\ tasks'[i].engine = "nmap" => mode = "live"
             /\ tasks'[i].engine = "fake" <=> mode \in {"training", "unset", "corrupt"}
             /\ mode = "live" /\ tasks'[i].pc = "waiting" => tasks'[i].engine = "nmap"
             /\ mode = "live" => tasks'[i].engine # "fake"]_vars

\* C15 witness: one orchestrator has run an earlier scan on the real engine
\* and a later one on the simulated engine while an unreadable value is
\* stored
C15_EnginesOfBothModesUsed ==
    \E i, j \in Ids :
        /\ i < j
        /\ tasks[i].engine = "nmap"
        /\ tasks[j].engine = "fake"
        /\ mode = "corrupt"


(***************************************************************************)
(* The simulated engine                                                    *)
(***************************************************************************)
\* targets of the simulated engine that pass validation
ValidFakeTargets == {t \in FakeTargets : validate(t, maxNetworkSize) = "ok"}

ValidFakeResults == UNION {fakeScans[t].devices : t \in ValidFakeTargets}

\* C17: for every valid target, the device list scan_network returns has a
\* device of type ROUTER, and it is the first device of the list.
C17_RouterAlwaysFirst ==
    \A ds \in ValidFakeResults :
        /\ Len(ds) >= 1
        /\ ds[1].device_type = "router"

\* number of host addresses of a target
NumHosts(t) == Len(_parse_network(t))

Min(a, b) == IF a < b THEN a ELSE b

\* the range the claim gives for a target: 5..20 inside 10.0.0.0/8, 3..15
\* inside 192.168.0.0/16, 4..18 in every other allowed range
ClaimedRange(t) ==
    IF _is_subnet_of(t, Cidr(4, IP(10, 0, 0, 0), 8)) THEN <<5, 20>>
    ELSE IF _is_subnet_of(t, Cidr(4, IP(192, 168, 0, 0), 16)) THEN <<3, 15>>
    ELSE <<4, 18>>

\* C18 as stated: for every valid target, the number of devices returned
\* lies in the range of the target's network class (5..20, 3..15, 4..18),
\* single addresses and small prefixes included.
C18_DeviceCountInClassRange ==
    \A t \in ValidFakeTargets : \A ds \in fakeScans[t].devices :
        /\ ClaimedRange(t)[1] <= Len(ds)
        /\ Len(ds) <= ClaimedRange(t)[2]

\* C18 amended: the number of devices returned is the smaller of a count in
\* the range of the target's network class and the number of host addresses
\* of the target; it lies in the range whenever the target has at least as
\* many host addresses as the range's lower end.
C18_DeviceCountInRangeOrAllHosts ==
    \A t \in ValidFakeTargets : \A ds \in fakeScans[t].devices :
        /\ Len(ds) <= ClaimedRange(t)[2]
        /\ Len(ds) <= NumHosts(t)
        /\ Len(ds) >= Min(ClaimedRange(t)[1], NumHosts(t))

\* targets of the three classes have been scanned: the lists of the two
\* /24 networks lie in their ranges, one of them at the upper end, and the
\* single address and the four-address network gave all their hosts
C18_LargeAndSmallTargetsScanned ==
    /\ ValidFakeTargets = FakeTargets
    /\ \E ds \in fakeScans[HomeNet].devices : Len(ds) \in {3, 15}
    /\ \E ds \in fakeScans[OfficeNet].devices : Len(ds) \in 5..20
    /\ \E ds \in fakeScans[SmallNet].devices : Len(ds) = 2
    /\ \E ds \in fakeScans[SingleHost].devices : Len(ds) = 1

\* C19: in every device list returned, a device marked down has no MAC, no
\* hostname, no vendor, device type UNKNOWN, no OS and no open port.
C19_DownDevicesCarryNothing ==
    \A t \in FakeTargets : \A ds \in fakeScans[t].devices : \A i \in 1..Len(ds) :
        ~ds[i].is_up =>
            /\ ds[i].mac = NoMac
            /\ ds[i].hostname = NoHostname
            /\ ds[i].vendor = None
            /\ ds[i].device_type = "unknown"
            /\ ds[i].os = None
            /\ ds[i].open_ports = {}

\* a list was returned in which a device drawn as a router is down and a
\* later device is down too, next to devices that are up
C19_ListWithDownDevices ==
    \E t \in FakeTargets : \E ds \in fakeScans[t].devices :
        /\ ~ds[1].is_up
        /\ \E i, j \in 2..Len(ds) : ~ds[i].is_up /\ ds[j].is_up /\ ds[j].open_ports # {}

(***************************************************************************)
(* The fingerprinter                                                       *)
(***************************************************************************)
\* identify_device has returned for the device of the call
Classified ==
    /\ reply.op = "identify_device"
    /\ reply.result = "returned"

PrinterPorts == {515, 631, 9100}
CameraPorts == {554, 8554}

\* C20 as stated: a device with port 3389 open classifies as WORKSTATION,
\* whatever other ports are open (printer, camera and file-sharing ports
\* included) and whatever its address.
C20_RemoteDesktopIsWorkstation ==
    (Classified /\ 3389 \in reply.device.open_ports)
        => reply.device.device_type = "workstation"

\* C20 amended: a device with port 3389 open and none of the printer ports
\* 515/631/9100 and camera ports 554/8554 classifies as WORKSTATION,
\* whatever other ports (file-sharing ports included) are open and whatever
\* its address; with a printer port open it classifies as PRINTER, and with
\* a camera port and no printer port as CAMERA.
C20_RemoteDesktopAfterPrinterAndCamera ==
    (Classified /\ 3389 \in reply.device.open_ports) =>
        reply.device.device_type =
            IF reply.device.open_ports \cap PrinterPorts # {} THEN "printer"
            ELSE IF reply.device.open_ports \cap CameraPorts # {} THEN "camera"
            ELSE "workstation"

\* a device at a gateway-shaped address with remote desktop, file sharing
\* and web ports open was classified as a workstation
C20_WorkstationWithFileSharingAtGateway ==
    /\ Classified
    /\ {3389, 445, 80} \subseteq reply.device.open_ports
    /\ GatewayShaped(reply.device.ip)
    /\ "smb" \in reply.device.services
    /\ reply.device.device_type = "workstation"

(***************************************************************************)
(* Failure kinds of the validator                                          *)
(***************************************************************************)
\* validate has answered the call of the harness
Answered ==
    /\ reply.op = "validate_target"
    /\ reply.result # "called"

\* C21: the failure of validate on a CIDR target names the rule violated:
\* TooLarge when the address count exceeds the configured maximum, inside
\* an allowed range or not; NotPrivate when the count is within the maximum
\* and the range is not inside one allowed range; and a malformed target
\* fails with InvalidFormat.
C21_FailureNamesTheRule ==
    /\ CidrAnswered =>
          /\ num_addresses(reply.target) > maxNetworkSize => reply.result = "TooLarge"
          /\ (/\ num_addresses(reply.target) <= maxNetworkSize
              /\ ~WithinAllowedSpan(reply.target)) => reply.result = "NotPrivate"
    /\ (Answered /\ reply.target.kind = "bad") => reply.result = "InvalidFormat"

\* C22: every scan's record passes through RUNNING: the status
\* get_scan_status reports never goes from PENDING directly to COMPLETED,
\* FAILED or CANCELLED, in training mode as in live mode.
C22_NoTerminalStraightFromPending ==
    [][\A i \in Ids :
          get_scan_status(i).status = "pending"
          => get_scan_status(i)'.status \notin Terminal]_vars

\* some scan is reported RUNNING by get_scan_status
ScanRunning == \E i \in Ids : get_scan_status(i).status = "running"

\* the stored mode is live and real scanning is switched off
LiveDisabled == mode = "live" /\ ~enableReal

\* C23: when several rejection conditions hold at once, start_scan reports
\* the first in the order ConsentRequired, validation failure,
\* ScanInProgress, CooldownActive, ScanningDisabled.
C23_FirstRejectionInFixedOrder ==
    \A t \in ScanTargets, c \in BOOLEAN, inst \in BOOLEAN :
        LET o == StartScanOutcome(t, c, inst)
        IN  IF ~c THEN o = "ConsentRequired"
            ELSE IF ~MayBeScanned(t) THEN o \in {"InvalidFormat", "NotPrivate", "TooLarge"}
            ELSE IF ScanRunning THEN o = "ScanInProgress"
            ELSE IF Cooling THEN o = "CooldownActive"
            ELSE IF LiveDisabled THEN o = "ScanningDisabled"
            ELSE TRUE

\* the background unit of scan i exits in this step
UnitExits(i) == tasks[i].pc # "done" /\ tasks'[i].pc = "done"

\* C24: every exit of the background unit, the scan having ended COMPLETED,
\* FAILED (an exception caught in the unit included) or CANCELLED, clears
\* the current-scan marker and stamps the last-completion time, so that a
\* start_scan made right after it, within the cooldown window, fails with
\* CooldownActive.
C24_EveryExitClearsAndStamps ==
    [][\A i \in Ids :
          UnitExits(i) =>
              /\ currentScan' = NoScan
              /\ lastScanTime' = now'
              /\ StartScanOutcome(HomeNet, TRUE, TRUE)' = "CooldownActive"]_vars

\* the label of the first rule of the claimed order that a device with the
\* given address and open ports matches
FirstMatchingRule(ip, ports) ==
    IF ports \cap {515, 631, 9100} # {} THEN "printer"
    ELSE IF ports \cap {554, 8554} # {} THEN "camera"
    ELSE IF ports \cap {3389, 5900} # {} THEN "workstation"
    ELSE IF ports \cap {139, 445, 548} # {} THEN "nas"
    ELSE IF 135 \in ports THEN "workstation"
    ELSE IF ports \cap {1883, 8883, 5683} # {} THEN "iot"
    ELSE IF (ip[2] % 256) \in {1, 254} /\ ports \cap {80, 443} # {} THEN "router"
    ELSE IF Cardinality(ports \cap {21, 22, 25, 53, 80, 110, 143, 443, 993, 995}) >= 3
         THEN "server"
    ELSE IF Cardinality(ports) > 5 THEN "server"
    ELSE IF Cardinality(ports) >= 1 THEN "workstation"
    ELSE "unknown"

\* C25: for every device, the type the fingerprinter assigns is the label
\* of the first matching rule in the order printer ports, camera ports,
\* remote-desktop/VNC ports, file-sharing ports, RPC port, MQTT/CoAP ports,
\* gateway address with a web port, three server ports, port count; so
\* ports {9100, 631} always give printer.
C25_TypeIsFirstMatchingRule ==
    Classified =>
        reply.device.device_type =
            FirstMatchingRule(reply.device.ip, reply.device.open_ports)

\* a device with ports 9100 and 631, a remote-desktop port and the service
\* name of a camera was classified as a printer
C25_PrinterPortsDecideFirst ==
    /\ Classified
    /\ {9100, 631, 3389} \subseteq reply.device.open_ports
    /\ "rtsp" \in reply.device.services
    /\ reply.device.device_type = "printer"

\* C26: every generated up device has between 50% and 100% of the ports of
\* the template of its type open, all of them ports of the template.
C26_HalfToAllTemplatePorts ==
    \A t \in FakeTargets : \A ds \in fakeScans[t].devices : \A i \in 1..Len(ds) :
        ds[i].is_up =>
            LET ports == DEVICE_TEMPLATES[ds[i].device_type].ports
            IN  /\ ds[i].open_ports \subseteq SeqToSet(ports)
                /\ 2 * Cardinality(ds[i].open_ports) >= Len(ports)
                /\ Cardinality(ds[i].open_ports) <= Len(ports)

C28_StatusReadIsLastWrite ==
    \A i \in Ids :
        tasks[i].pc = "done" =>
            /\ get_scan_status(i).status = scanHistory[i].status
            /\ get_scan_status(i).status = store[i].status
            /\ get_scan_status(i).status \in Terminal

\* a scan cancelled while it ran has exited, next to another scan
C28_CancelledUnitExitedBesideAnother ==
    \E i, j \in Ids :
        /\ i # j
        /\ tasks[i].pc = "done"
        /\ i \in cancelAcks
        /\ tasks[j].pc \in {"waiting", "done"}

\* C29: while enable_real_scanning is false, no scan started through
\* start_scan is ever executed by the real engine: no background unit runs
\* NmapScanner and the external tool is never invoked.
C29_DisabledNeverRunsRealEngine ==
    ~enableReal =>
        /\ toolRuns = {}
        /\ \A i \in Ids : tasks[i].engine # "nmap"

\* C30: whenever some background unit is in flight, the current-scan marker
\* is set and names a scan whose unit is in flight; the marker is null only
\* when no unit is in flight.
C30_MarkerNamesInFlightScan ==
    /\ InFlight # {} => currentScan \in InFlight
    /\ currentScan = NoScan => InFlight = {}

====
